---- MODULE Spec2Model ----
(***************************************************************************)
(* Model of the Polly-API client library (src/register_user.py).           *)
(*                                                                         *)
(* One caller invokes one public function at a time.  Every HTTP round     *)
(* trip is answered by the environment with an Outcome: a response         *)
(* (status code and decoded body) or a fault raised by the requests        *)
(* library.  Python values are modelled with their dynamic type, so that   *)
(* the isinstance() tests of the schema validators are real tests.         *)
(*                                                                         *)
(* Spec answers every round trip arbitrarily; LiveSpec adds the fairness   *)
(* of the pagination loop; ServerSpec answers from the server's state      *)
(* while other clients change it; ReadersSpec does so for the functions    *)
(* that make several requests; ConcurrentSpec interleaves two callers.     *)
(***************************************************************************)
EXTENDS Integers, Sequences, FiniteSets, TLC

VARIABLES
    pc,         \* position of the caller: "idle", a workflow step, or "done"
    op,         \* name of the public function being executed
    args,       \* its arguments
    sent,       \* HTTP requests issued by the current invocation, in order
    recv,       \* the outcome of each of those requests, in order
    ret,        \* how the invocation ended: returned value or raised exception
    poll_data,  \* local of the validated workflows
    all_polls,  \* local of fetch_all_polls_paginated
    skip,       \* local of fetch_all_polls_paginated
    polls,      \* the server's ordered poll collection (ids)
    server,     \* the rest of the server's state: users, options, vote counts
    changed,    \* another client changed the server during this invocation
    other       \* the frame of a second caller, suspended

vars == <<pc, op, args, sent, recv, ret, poll_data, all_polls, skip,
          polls, server, changed, other>>

\* what a step of the client leaves alone: the server and the other caller
env == <<polls, server, changed, other>>

----------------------------------------------------------------------------
(* Bounds *)

MaxPolls == 4        \* size of the server's poll collection: 0..MaxPolls
MaxPageSize == 3     \* page sizes tried: 1..MaxPageSize
MaxVotes == 2        \* votes the server counts per option: 0..MaxVotes

\* cap on the list-polls calls of one pagination run; a run against a server
\* that answers from its collection needs at most MaxPolls + 1 calls
MaxCalls == MaxPolls + 2

----------------------------------------------------------------------------
(* Python values: a dynamic type tag and a payload *)

None == [t |-> "none", v |-> 0]
Absent == [t |-> "absent", v |-> 0]          \* a key that a dict does not have
PyInt(n) == [t |-> "int", v |-> n]
PyStr(s) == [t |-> "str", v |-> s]
PyList(s) == [t |-> "list", v |-> s]
PyDict(f) == [t |-> "dict", v |-> f]
NotJson == [t |-> "notjson", v |-> 0]        \* a body response.json() cannot decode

\* d.get(k): None when the key is absent
Get(d, k) == IF d.v[k].t = "absent" THEN None ELSE d.v[k]

\* bool(x) for the values that occur
Truthy(x) ==
    CASE x.t = "none" -> FALSE
      [] x.t = "str" -> x.v # ""
      [] x.t = "list" -> Len(x.v) > 0
      [] x.t = "int" -> x.v # 0
      [] x.t = "bool" -> x.v
      [] x.t = "dict" -> \E k \in DOMAIN x.v : x.v[k].t # "absent"
      [] OTHER -> TRUE

SeqMin(S) == CHOOSE i \in S : \A j \in S : i <= j

----------------------------------------------------------------------------
(* Exceptions and outcomes of one HTTP round trip *)

Exc(cls, msg) == [cls |-> cls, msg |-> msg]
NoExc == Exc("none", "")

\* requests.exceptions.ConnectionError, Timeout and every other transport
\* fault derive from requests.RequestException
TransportFaults ==
    { Exc("ConnectionError", "connection refused"),
      Exc("Timeout", "read timed out"),
      Exc("RequestException", "too many redirects") }

\* response.json() on an undecodable body raises requests' JSONDecodeError
\* (a RequestException) or a plain ValueError, depending on the installed
\* requests version
JsonErrors ==
    { Exc("JSONDecodeError", "expecting value"),
      Exc("ValueError", "expecting value") }

\* faulty variant: matches the class itself, not its subclasses
IsRequestException_ExactClass(e) == e.cls = "RequestException"

IsRequestException(e) ==
    e.cls \in {"ConnectionError", "Timeout", "RequestException", "JSONDecodeError"}

Response(status, body) == [kind |-> "response", status |-> status, body |-> body, exc |-> NoExc]
Fault(e) == [kind |-> "fault", status |-> 0, body |-> None, exc |-> e]

Returned(v) == [kind |-> "return", val |-> v, exc |-> NoExc]
Raised(e) == [kind |-> "raise", val |-> None, exc |-> e]
NoRet == [kind |-> "none", val |-> None, exc |-> NoExc]

----------------------------------------------------------------------------
(* Schema validators *)

_validate_user_out_schema(data) ==
    IF data.t # "dict" THEN FALSE
    ELSE /\ Get(data, "id").t = "int"
         /\ Get(data, "username").t = "str"

_validate_token_schema(data) ==
    IF data.t # "dict" THEN FALSE
    ELSE /\ Get(data, "access_token").t = "str"
         /\ Get(data, "token_type").t = "str"

\* faulty variant: the "id" field is not checked
_validate_poll_out_schema_NoId(data) ==
    IF data.t # "dict" THEN FALSE
    ELSE /\ Get(data, "question").t = "str"
         /\ Get(data, "created_at").t = "str"
         /\ Get(data, "owner_id").t = "int"
         /\ Get(data, "options").t = "list"

_validate_poll_out_schema(data) ==
    IF data.t # "dict" THEN FALSE
    ELSE /\ Get(data, "id").t = "int"
         /\ Get(data, "question").t = "str"
         /\ Get(data, "created_at").t = "str"
         /\ Get(data, "owner_id").t = "int"
         /\ Get(data, "options").t = "list"

_validate_vote_out_schema(data) ==
    IF data.t # "dict" THEN FALSE
    ELSE /\ Get(data, "id").t = "int"
         /\ Get(data, "user_id").t = "int"
         /\ Get(data, "option_id").t = "int"
         /\ Get(data, "created_at").t = "str"

_validate_poll_results_schema(data) ==
    IF data.t # "dict" THEN FALSE
    ELSE /\ Get(data, "poll_id").t = "int"
         /\ Get(data, "question").t = "str"
         /\ Get(data, "results").t = "list"

----------------------------------------------------------------------------
(* Response bodies the server may send *)

Option(id, text) == PyDict([id |-> id, text |-> text])
O1 == Option(PyInt(1), PyStr("A"))
O2 == Option(PyInt(2), PyStr("B"))

PollOut(id, options) ==
    PyDict([id |-> id, question |-> PyStr("Q"), created_at |-> PyStr("ts"),
            owner_id |-> PyInt(1), options |-> options])

\* option lists: well-formed ones, and ones the Poll validator lets through
WellFormedOptionLists == { <<>>, <<O1, O2>>, <<O2>> }
OptionLists ==
    WellFormedOptionLists \cup
    { <<O1, Option(PyInt(2), Absent)>>,      \* an option without "text"
      <<O1, Option(Absent, PyStr("B"))>>,    \* an option without "id"
      <<PyStr("x")>> }                       \* an entry that is not a mapping

PollBodies(p) ==
    { PollOut(PyInt(p), PyList(l)) : l \in OptionLists } \cup
    { PollOut(Absent, PyList(<<O1, O2>>)),   \* no "id"
      PollOut(PyInt(p), None),               \* "options" is not an array
      PyList(<<>>),                          \* not a mapping
      None,                                  \* JSON null
      NotJson }

VoteOut(id, option_id) ==
    PyDict([id |-> id, user_id |-> PyInt(7), option_id |-> option_id,
            created_at |-> PyStr("ts")])

VoteBodies(o) ==
    { VoteOut(PyInt(10), PyInt(o)),
      VoteOut(Absent, PyInt(o)),             \* no "id"
      None,
      NotJson }

ResultEntry(text, vote_count) == PyDict([text |-> text, vote_count |-> vote_count])

ResultLists ==
    { <<>>,
      <<ResultEntry(PyStr("A"), PyInt(3)), ResultEntry(PyStr("B"), PyInt(1))>>,
      <<ResultEntry(PyStr("A"), PyInt(0)), ResultEntry(PyStr("B"), PyInt(0))>>,
      <<ResultEntry(PyStr("A"), PyInt(2)), ResultEntry(PyStr("B"), Absent)>>,
      <<ResultEntry(PyStr("A"), PyStr("3"))>>,
      <<PyStr("x")>> }

PollResults(poll_id, results) ==
    PyDict([poll_id |-> poll_id, question |-> PyStr("Q"), results |-> results])

ResultsBodies(p) ==
    { PollResults(PyInt(p), PyList(l)) : l \in ResultLists } \cup
    { PollResults(Absent, PyList(<<>>)),     \* no "poll_id"
      None,
      NotJson }

Statuses == {200, 204, 400, 401, 404, 422, 500}

Outcomes(bodies) ==
    { Response(200, b) : b \in bodies } \cup
    { Response(s, None) : s \in Statuses \ {200} } \cup
    { Fault(e) : e \in TransportFaults }

----------------------------------------------------------------------------
(* HTTP requests *)

Request(method, path, poll_id, data, auth) ==
    [method |-> method, path |-> path, poll_id |-> poll_id, data |-> data, auth |-> auth]

NoData == [none |-> 0]

----------------------------------------------------------------------------
(* Resource operations: what the function does with the outcome `out` of    *)
(* its single request.  `jx` is the exception response.json() raises when   *)
(* the body cannot be decoded.                                              *)

\* faulty variant: a 404 is raised as an HTTP error instead of returning None
get_poll_by_id_RaiseOn404(out, jx) ==
    IF out.kind = "fault" THEN Raised(out.exc)
    ELSE IF out.status = 200 THEN
        IF out.body.t = "notjson" THEN Raised(jx)
        ELSE IF ~_validate_poll_out_schema(out.body) THEN Returned(None)
        ELSE Returned(out.body)
    ELSE IF out.status = 404 THEN Raised(Exc("HTTPError", "404 Not Found"))
    ELSE Returned(None)

\* faulty variant: a transport fault is logged and swallowed
get_poll_by_id_Swallowing(out, jx) ==
    IF out.kind = "fault" THEN Returned(None)
    ELSE IF out.status = 200 THEN
        IF out.body.t = "notjson" THEN Raised(jx)
        ELSE IF ~_validate_poll_out_schema(out.body) THEN Returned(None)
        ELSE Returned(out.body)
    ELSE Returned(None)

get_poll_by_id(out, jx) ==
    IF out.kind = "fault" THEN Raised(out.exc)              \* logged, re-raised
    ELSE IF out.status = 200 THEN
        IF out.body.t = "notjson" THEN Raised(jx)
        ELSE IF ~_validate_poll_out_schema(out.body) THEN Returned(None)
        ELSE Returned(out.body)
    ELSE IF out.status = 404 THEN Returned(None)
    ELSE Returned(None)

vote_on_poll(out, jx) ==
    IF out.kind = "fault" THEN Raised(out.exc)
    ELSE IF out.status = 200 THEN
        IF out.body.t = "notjson" THEN Raised(jx)
        ELSE IF ~_validate_vote_out_schema(out.body) THEN Returned(None)
        ELSE Returned(out.body)
    ELSE IF out.status = 401 THEN Returned(None)
    ELSE IF out.status = 404 THEN Returned(None)
    ELSE IF out.status = 422 THEN Returned(None)
    ELSE Returned(None)

get_poll_results(out, jx) ==
    IF out.kind = "fault" THEN Raised(out.exc)
    ELSE IF out.status = 200 THEN
        IF out.body.t = "notjson" THEN Raised(jx)
        ELSE IF ~_validate_poll_results_schema(out.body) THEN Returned(None)
        ELSE Returned(out.body)
    ELSE IF out.status = 404 THEN Returned(None)
    ELSE Returned(None)

----------------------------------------------------------------------------
(* Result dictionaries of the *_with_validation / *_with_error_handling     *)
(* functions.  message is the f-string: its fixed text and the value        *)
(* interpolated into it.  error_type "" and extra NoData: key not present.  *)

Result(success, data, text, detail, error_type, extra) ==
    [t |-> "result", success |-> success, data |-> data,
     message |-> [text |-> text, detail |-> detail],
     error_type |-> error_type, extra |-> extra]

NoArgs ==
    [poll_id |-> 0, option_id |-> 0, access_token |-> None, page_size |-> 0,
     username |-> None, password |-> None, question |-> None, options |-> None,
     skip |-> 0, limit |-> 0]

PollIdArgs == {-1, 0, 1}
OptionIdArgs == {-1, 0, 1, 2, 3}
TokenArgs == {None, PyStr(""), PyStr("tok")}

----------------------------------------------------------------------------
(* cast_vote_with_validation *)

\* [option["id"] for option in poll_data.get("options", [])]
\* raises at the first entry that is not a mapping or has no "id"
\* faulty variant: option.get("id") -- entries without an id are passed over
valid_option_ids_Lenient(pd) ==
    LET opts == Get(pd, "options").v
    IN  Returned([i \in DOMAIN opts |->
                    IF opts[i].t = "dict" THEN opts[i].v.id ELSE Absent])

valid_option_ids(pd) ==
    LET opts == Get(pd, "options").v
        bad == { i \in DOMAIN opts :
                    IF opts[i].t # "dict" THEN TRUE ELSE opts[i].v.id.t = "absent" }
    IN  IF bad = {} THEN Returned([i \in DOMAIN opts |-> opts[i].v.id])
        ELSE IF opts[SeqMin(bad)].t # "dict"
             THEN Raised(Exc("TypeError", "string indices must be integers"))
             ELSE Raised(Exc("KeyError", "'id'"))

\* faulty variant: matches the position in the list instead of the id
OptionIn_ByPosition(option_id, ids) ==
    \E i \in DOMAIN ids : i = option_id

\* option_id in valid_option_ids
OptionIn(option_id, ids) ==
    \E i \in DOMAIN ids : ids[i].t = "int" /\ ids[i].v = option_id

\* next((opt["text"] for opt in poll_data["options"] if opt["id"] == option_id), "Unknown")
\* only evaluated after valid_option_ids succeeded, so every entry has an id
option_text(pd, option_id) ==
    LET opts == Get(pd, "options").v
        match == { j \in DOMAIN opts : opts[j].v.id.t = "int" /\ opts[j].v.id.v = option_id }
    IN  IF match = {} THEN Returned(PyStr("Unknown"))
        ELSE IF opts[SeqMin(match)].v.text.t = "absent" THEN Raised(Exc("KeyError", "'text'"))
        ELSE Returned(opts[SeqMin(match)].v.text)

\* the two except clauses that close the workflow's try block
cast_vote_except(e) ==
    IF IsRequestException(e)
    THEN Result(FALSE, None, "Network error while casting vote: ", e.msg, "NetworkError", NoData)
    ELSE Result(FALSE, None, "Unexpected error while casting vote: ", e.msg, "UnexpectedError", NoData)

CallCastVoteWithValidation ==
    /\ pc = "idle"
    /\ \E p \in PollIdArgs, o \in OptionIdArgs, tok \in TokenArgs :
        /\ op' = "cast_vote_with_validation"
        /\ args' = [NoArgs EXCEPT !.poll_id = p, !.option_id = o, !.access_token = tok]
        /\ IF ~Truthy(tok) THEN
                /\ ret' = Returned(Result(FALSE, None, "Access token is required to cast a vote",
                                          0, "ValidationError", NoData))
                /\ pc' = "done"
           ELSE IF p <= 0 THEN
                /\ ret' = Returned(Result(FALSE, None, "Invalid poll_id. Must be a positive integer.",
                                          p, "ValidationError", NoData))
                /\ pc' = "done"
           ELSE IF o <= 0 THEN
                /\ ret' = Returned(Result(FALSE, None, "Invalid option_id. Must be a positive integer.",
                                          o, "ValidationError", NoData))
                /\ pc' = "done"
           ELSE /\ ret' = NoRet
                /\ pc' = "cv_get_poll"
    /\ UNCHANGED <<sent, recv, poll_data, all_polls, skip, env>>

\* lines 879-896: the get-poll round trip and the option check
CastVoteGetPollOn(out, jx) ==
    /\ pc = "cv_get_poll"
    /\
        LET r == get_poll_by_id(out, jx)
            ids == valid_option_ids(r.val)
        IN  /\ sent' = Append(sent, Request("GET", "/polls/{id}", args.poll_id, NoData, None))
            /\ recv' = Append(recv, out)
            /\ IF r.kind = "raise" THEN
                    /\ ret' = Returned(cast_vote_except(r.exc))
                    /\ pc' = "done"
                    /\ UNCHANGED poll_data
               ELSE IF ~Truthy(r.val) THEN
                    /\ ret' = Returned(Result(FALSE, None, "Poll not found", args.poll_id,
                                              "NotFoundError", NoData))
                    /\ pc' = "done"
                    /\ UNCHANGED poll_data
               ELSE IF ids.kind = "raise" THEN
                    /\ ret' = Returned(cast_vote_except(ids.exc))
                    /\ pc' = "done"
                    /\ UNCHANGED poll_data
               ELSE IF ~OptionIn(args.option_id, ids.val) THEN
                    /\ ret' = Returned(Result(FALSE, None, "Option not found in poll. Valid options: ",
                                              ids.val, "ValidationError", NoData))
                    /\ pc' = "done"
                    /\ UNCHANGED poll_data
               ELSE /\ poll_data' = r.val
                    /\ pc' = "cv_vote"
                    /\ UNCHANGED ret
    /\ UNCHANGED <<op, args, all_polls, skip>>

CastVoteGetPoll ==
    /\ \E out \in Outcomes(PollBodies(args.poll_id)), jx \in JsonErrors :
          CastVoteGetPollOn(out, jx)
    /\ UNCHANGED env

\* faulty variant: the value vote_on_poll returned is not tested
CastVoteVoteOn_ResultUnchecked(out, jx) ==
    /\ pc = "cv_vote"
    /\
        LET r == vote_on_poll(out, jx)
            txt == option_text(poll_data, args.option_id)
        IN  /\ sent' = Append(sent, Request("POST", "/polls/{id}/vote", args.poll_id,
                                            [option_id |-> args.option_id], args.access_token))
            /\ recv' = Append(recv, out)
            /\ ret' = IF r.kind = "raise" THEN Returned(cast_vote_except(r.exc))
                      ELSE IF TRUE THEN
                          IF txt.kind = "raise" THEN Returned(cast_vote_except(txt.exc))
                          ELSE Returned(Result(TRUE, r.val, "Vote cast successfully", 0, "",
                                    [poll_id |-> args.poll_id,
                                     question |-> Get(poll_data, "question"),
                                     option_id |-> args.option_id,
                                     option_text |-> txt.val]))
                      ELSE Returned(Result(FALSE, None, "Failed to cast vote", 0, "VoteError", NoData))
            /\ pc' = "done"
    /\ UNCHANGED <<op, args, poll_data, all_polls, skip>>

\* lines 898-919: the vote round trip
CastVoteVoteOn(out, jx) ==
    /\ pc = "cv_vote"
    /\
        LET r == vote_on_poll(out, jx)
            txt == option_text(poll_data, args.option_id)
        IN  /\ sent' = Append(sent, Request("POST", "/polls/{id}/vote", args.poll_id,
                                            [option_id |-> args.option_id], args.access_token))
            /\ recv' = Append(recv, out)
            /\ ret' = IF r.kind = "raise" THEN Returned(cast_vote_except(r.exc))
                      ELSE IF Truthy(r.val) THEN
                          IF txt.kind = "raise" THEN Returned(cast_vote_except(txt.exc))
                          ELSE Returned(Result(TRUE, r.val, "Vote cast successfully", 0, "",
                                    [poll_id |-> args.poll_id,
                                     question |-> Get(poll_data, "question"),
                                     option_id |-> args.option_id,
                                     option_text |-> txt.val]))
                      ELSE Returned(Result(FALSE, None, "Failed to cast vote", 0, "VoteError", NoData))
            /\ pc' = "done"
    /\ UNCHANGED <<op, args, poll_data, all_polls, skip>>

CastVoteVote ==
    /\ \E out \in Outcomes(VoteBodies(args.option_id)), jx \in JsonErrors :
          CastVoteVoteOn(out, jx)
    /\ UNCHANGED env

----------------------------------------------------------------------------
(* retrieve_poll_results_with_validation *)

\* sum(result.get("vote_count", 0) for result in results.get("results", []))
\* raises at the first entry that is not a mapping (no .get) or whose count
\* cannot be added to an int: total_votes below; SumCounts adds the counts
\* of well-formed entries.

\* faulty variant: counts the entries instead of adding their vote counts
SumCounts_CountEntries(l) == Len(l)

RECURSIVE SumCounts(_)
SumCounts(l) ==
    IF l = <<>> THEN 0
    ELSE (IF Head(l).v.vote_count.t = "absent" THEN 0 ELSE Head(l).v.vote_count.v)
         + SumCounts(Tail(l))

total_votes(results) ==
    LET l == Get(results, "results").v
        bad == { i \in DOMAIN l :
                    IF l[i].t # "dict" THEN TRUE
                    ELSE l[i].v.vote_count.t \notin {"int", "absent"} }
    IN  IF bad = {} THEN Returned(SumCounts(l))
        ELSE IF l[SeqMin(bad)].t # "dict"
             THEN Raised(Exc("AttributeError", "object has no attribute 'get'"))
             ELSE Raised(Exc("TypeError", "unsupported operand type(s) for +"))

retrieve_results_except(e) ==
    IF IsRequestException(e)
    THEN Result(FALSE, None, "Network error while retrieving results: ", e.msg, "NetworkError", NoData)
    ELSE Result(FALSE, None, "Unexpected error while retrieving results: ", e.msg, "UnexpectedError", NoData)

\* faulty variant: the argument check lets poll_id 0 through
CallRetrievePollResultsWithValidation_ZeroAllowed ==
    /\ pc = "idle"
    /\ \E p \in PollIdArgs :
        /\ op' = "retrieve_poll_results_with_validation"
        /\ args' = [NoArgs EXCEPT !.poll_id = p]
        /\ IF p < 0 THEN
                /\ ret' = Returned(Result(FALSE, None, "Invalid poll_id. Must be a positive integer.",
                                          p, "ValidationError", NoData))
                /\ pc' = "done"
           ELSE /\ ret' = NoRet
                /\ pc' = "rr_get_poll"
    /\ UNCHANGED <<sent, recv, poll_data, all_polls, skip, env>>

CallRetrievePollResultsWithValidation ==
    /\ pc = "idle"
    /\ \E p \in PollIdArgs :
        /\ op' = "retrieve_poll_results_with_validation"
        /\ args' = [NoArgs EXCEPT !.poll_id = p]
        /\ IF p <= 0 THEN
                /\ ret' = Returned(Result(FALSE, None, "Invalid poll_id. Must be a positive integer.",
                                          p, "ValidationError", NoData))
                /\ pc' = "done"
           ELSE /\ ret' = NoRet
                /\ pc' = "rr_get_poll"
    /\ UNCHANGED <<sent, recv, poll_data, all_polls, skip, env>>

\* faulty variant: the poll is not checked to exist
RetrieveResultsGetPollOn_NoExistenceCheck(out, jx) ==
    /\ pc = "rr_get_poll"
    /\
        LET r == get_poll_by_id(out, jx)
        IN  /\ sent' = Append(sent, Request("GET", "/polls/{id}", args.poll_id, NoData, None))
            /\ recv' = Append(recv, out)
            /\ IF r.kind = "raise" THEN
                    /\ ret' = Returned(retrieve_results_except(r.exc))
                    /\ pc' = "done"
                    /\ UNCHANGED poll_data
               ELSE /\ poll_data' = r.val
                    /\ pc' = "rr_results"
                    /\ UNCHANGED ret
    /\ UNCHANGED <<op, args, all_polls, skip>>

\* lines 959-966
RetrieveResultsGetPollOn(out, jx) ==
    /\ pc = "rr_get_poll"
    /\
        LET r == get_poll_by_id(out, jx)
        IN  /\ sent' = Append(sent, Request("GET", "/polls/{id}", args.poll_id, NoData, None))
            /\ recv' = Append(recv, out)
            /\ IF r.kind = "raise" THEN
                    /\ ret' = Returned(retrieve_results_except(r.exc))
                    /\ pc' = "done"
                    /\ UNCHANGED poll_data
               ELSE IF ~Truthy(r.val) THEN
                    /\ ret' = Returned(Result(FALSE, None, "Poll not found", args.poll_id,
                                              "NotFoundError", NoData))
                    /\ pc' = "done"
                    /\ UNCHANGED poll_data
               ELSE /\ poll_data' = r.val
                    /\ pc' = "rr_results"
                    /\ UNCHANGED ret
    /\ UNCHANGED <<op, args, all_polls, skip>>

RetrieveResultsGetPoll ==
    /\ \E out \in Outcomes(PollBodies(args.poll_id)), jx \in JsonErrors :
          RetrieveResultsGetPollOn(out, jx)
    /\ UNCHANGED env

\* faulty variant: the results are asked for with a POST
RetrieveResultsGetResultsOn_Posting(out, jx) ==
    /\ pc = "rr_results"
    /\
        LET r == get_poll_results(out, jx)
            tv == total_votes(r.val)
        IN  /\ sent' = Append(sent, Request("POST", "/polls/{id}/results", args.poll_id, NoData, None))
            /\ recv' = Append(recv, out)
            /\ ret' = IF r.kind = "raise" THEN Returned(retrieve_results_except(r.exc))
                      ELSE IF Truthy(r.val) THEN
                          IF tv.kind = "raise" THEN Returned(retrieve_results_except(tv.exc))
                          ELSE Returned(Result(TRUE, r.val, "Successfully retrieved results", 0, "",
                                    [poll_id |-> args.poll_id,
                                     question |-> Get(r.val, "question"),
                                     total_votes |-> tv.val,
                                     option_count |-> Len(Get(r.val, "results").v)]))
                      ELSE Returned(Result(FALSE, None, "Failed to retrieve results", 0,
                                           "ResultsError", NoData))
            /\ pc' = "done"
    /\ UNCHANGED <<op, args, poll_data, all_polls, skip>>

\* lines 968-992
RetrieveResultsGetResultsOn(out, jx) ==
    /\ pc = "rr_results"
    /\
        LET r == get_poll_results(out, jx)
            tv == total_votes(r.val)
        IN  /\ sent' = Append(sent, Request("GET", "/polls/{id}/results", args.poll_id, NoData, None))
            /\ recv' = Append(recv, out)
            /\ ret' = IF r.kind = "raise" THEN Returned(retrieve_results_except(r.exc))
                      ELSE IF Truthy(r.val) THEN
                          IF tv.kind = "raise" THEN Returned(retrieve_results_except(tv.exc))
                          ELSE Returned(Result(TRUE, r.val, "Successfully retrieved results", 0, "",
                                    [poll_id |-> args.poll_id,
                                     question |-> Get(r.val, "question"),
                                     total_votes |-> tv.val,
                                     option_count |-> Len(Get(r.val, "results").v)]))
                      ELSE Returned(Result(FALSE, None, "Failed to retrieve results", 0,
                                           "ResultsError", NoData))
            /\ pc' = "done"
    /\ UNCHANGED <<op, args, poll_data, all_polls, skip>>

RetrieveResultsGetResults ==
    /\ \E out \in Outcomes(ResultsBodies(args.poll_id)), jx \in JsonErrors :
          RetrieveResultsGetResultsOn(out, jx)
    /\ UNCHANGED env

----------------------------------------------------------------------------
(* list polls and fetch_all_polls_paginated *)

\* the Poll the server sends for the poll with id i
\* the options the server's polls currently have, in order
ServerOptions ==
    LET Kept(o) == o.v.id.v \in server.options
    IN  SelectSeq(<<O1, O2>>, Kept)

ServerPoll(i) == PollOut(PyInt(i), PyList(ServerOptions))

\* GET /polls?skip=&limit= answered from the server's collection
Slice(sk, limit) ==
    LET hi == IF sk + limit < Len(polls) THEN sk + limit ELSE Len(polls)
    IN  [i \in 1..(IF hi > sk THEN hi - sk ELSE 0) |-> ServerPoll(polls[sk + i])]

HonestListOutcome(sk, limit) == Response(200, PyList(Slice(sk, limit)))

\* a server whose collection never ends: a full page at every offset
EndlessListOutcome(sk, limit) ==
    Response(200, PyList([i \in 1..limit |-> ServerPoll(sk + i)]))

ListOutcomes(sk, limit) ==
    { HonestListOutcome(sk, limit),
      EndlessListOutcome(sk, limit),
      Response(200, PyList(<<PollOut(Absent, PyList(<<>>))>>)),   \* a poll without "id"
      Response(200, None),
      Response(200, NotJson) } \cup
    { Response(st, None) : st \in Statuses \ {200} } \cup
    { Fault(e) : e \in TransportFaults }

\* faulty variant: the two query parameters are swapped
ListRequest_Swapped(sk, limit) ==
    Request("GET", "/polls", 0, [skip |-> limit, limit |-> sk], None)

ListRequest(sk, limit) == Request("GET", "/polls", 0, [skip |-> sk, limit |-> limit], None)

\* len(x): only sequences have one
HasLen(x) == x.t \in {"list", "str", "dict"}

\* faulty variant: transport faults are re-raised, as fetch_polls does
fetch_polls_Reraising(sk, limit, out, jx) ==
    IF out.kind = "fault" THEN Raised(out.exc)
    ELSE IF out.status = 200 /\ HasLen(out.body) THEN
        Returned(Result(TRUE, out.body, "Successfully fetched polls", Len(out.body.v), "",
                        [skip |-> sk, limit |-> limit, returned_count |-> Len(out.body.v)]))
    ELSE Returned(Result(FALSE, None, "Unexpected error: ", out.status, "",
                    [status_code |-> out.status]))

fetch_polls_with_error_handling(sk, limit, out, jx) ==
    IF out.kind = "fault" THEN
        IF out.exc.cls = "ConnectionError" THEN
            Returned(Result(FALSE, None, "Connection error: Could not connect to the API server",
                            0, "ConnectionError", NoData))
        ELSE IF out.exc.cls = "Timeout" THEN
            Returned(Result(FALSE, None, "Request timeout: The server took too long to respond",
                            0, "Timeout", NoData))
        ELSE Returned(Result(FALSE, None, "Request failed: ", out.exc.msg, "RequestException", NoData))
    ELSE IF out.status = 200 THEN
        IF out.body.t = "notjson" THEN
            IF IsRequestException(jx)
            THEN Returned(Result(FALSE, None, "Request failed: ", jx.msg, "RequestException", NoData))
            ELSE Raised(jx)
        ELSE IF ~HasLen(out.body) THEN Raised(Exc("TypeError", "object has no len()"))
        ELSE Returned(Result(TRUE, out.body, "Successfully fetched polls", Len(out.body.v), "",
                        [skip |-> sk, limit |-> limit, returned_count |-> Len(out.body.v)]))
    ELSE Returned(Result(FALSE, None, "Unexpected error: ", out.status, "",
                    [status_code |-> out.status]))

fetch_polls(out, jx) ==
    IF out.kind = "fault" THEN Raised(out.exc)
    ELSE IF out.status = 200 THEN
        IF out.body.t = "notjson" THEN Raised(jx)
        ELSE IF out.body.t # "list" THEN Returned(None)
        ELSE IF \E i \in DOMAIN out.body.v : ~_validate_poll_out_schema(out.body.v[i])
             THEN Returned(None)
        ELSE Returned(out.body)
    ELSE Returned(None)

PageSizeArgs == 1..MaxPageSize

\* faulty variant: a full page also ends the run
LastPage_Inclusive(polls_batch, page_size) == Len(polls_batch.v) <= page_size

\* line 354: a page shorter than the page size ends the run
LastPage(polls_batch, page_size) == Len(polls_batch.v) < page_size

\* faulty variant: the offset advances by one item instead of one page
NextSkip_ByOne(sk, page_size) == sk + 1

\* line 357
\* faulty variant: the offset is not advanced
NextSkip_Stuck(sk, page_size) == sk

NextSkip(sk, page_size) == sk + page_size

CallFetchAllPollsPaginated ==
    /\ pc = "idle"
    /\ \E k \in PageSizeArgs :
        args' = [NoArgs EXCEPT !.page_size = k]
    /\ op' = "fetch_all_polls_paginated"
    /\ all_polls' = <<>>
    /\ skip' = 0
    /\ pc' = "pg_loop"
    /\ UNCHANGED <<sent, recv, ret, poll_data, env>>

\* one iteration of the while loop, lines 340-357 (and the return of line 359
\* when the iteration breaks)
PaginateStepOn(out, jx) ==
    /\ pc = "pg_loop"
    /\ Len(sent) < MaxCalls
    /\
        LET result == fetch_polls_with_error_handling(skip, args.page_size, out, jx)
            polls_batch == result.val.data
        IN  /\ sent' = Append(sent, ListRequest(skip, args.page_size))
            /\ recv' = Append(recv, out)
            /\ IF result.kind = "raise" THEN
                    /\ ret' = Raised(result.exc)
                    /\ pc' = "done"
                    /\ UNCHANGED <<all_polls, skip>>
               ELSE IF ~result.val.success THEN
                    /\ ret' = Returned(PyList(all_polls))
                    /\ pc' = "done"
                    /\ UNCHANGED <<all_polls, skip>>
               ELSE IF ~Truthy(polls_batch) THEN
                    /\ ret' = Returned(PyList(all_polls))
                    /\ pc' = "done"
                    /\ UNCHANGED <<all_polls, skip>>
               ELSE /\ all_polls' = all_polls \o polls_batch.v
                    /\ IF LastPage(polls_batch, args.page_size) THEN
                            /\ ret' = Returned(PyList(all_polls'))
                            /\ pc' = "done"
                            /\ UNCHANGED skip
                       ELSE /\ skip' = NextSkip(skip, args.page_size)
                            /\ UNCHANGED <<ret, pc>>
    /\ UNCHANGED <<op, args, poll_data>>

PaginateStep ==
    /\ \E out \in ListOutcomes(skip, args.page_size), jx \in JsonErrors :
          PaginateStepOn(out, jx)
    /\ UNCHANGED env

----------------------------------------------------------------------------
(* The single-request functions, called directly *)

PyBool(b) == [t |-> "bool", v |-> b]

UserOut(id, username) == PyDict([id |-> id, username |-> username])
UserBodies(u) ==
    { UserOut(PyInt(1), u), UserOut(Absent, u), None, NotJson }

Token(access_token, token_type) ==
    PyDict([access_token |-> access_token, token_type |-> token_type])
TokenBodies ==
    { Token(PyStr("tok"), PyStr("bearer")), Token(Absent, PyStr("bearer")), None, NotJson }

UsernameArgs == {None, PyStr(""), PyStr("alice")}
PasswordArgs == {PyStr(""), PyStr("secret123")}
QuestionArgs == {PyStr(""), PyStr("Coffee or tea?")}
OptionsArgs ==
    { None, PyList(<<>>), PyList(<<PyStr("Coffee"), PyStr("Tea")>>),
      PyList(<<PyStr("Coffee"), PyStr(" ")>>), PyList(<<PyStr("Coffee"), PyInt(5)>>) }

\* str.strip() on the option texts that occur
Strip(str) == IF str = " " THEN "" ELSE str

\* "not x or not isinstance(x, str)"
MissingText(x) == ~Truthy(x) \/ x.t # "str"

register_user_response(out, jx) ==
    IF out.kind = "fault" THEN Raised(out.exc)
    ELSE IF out.status = 200 THEN
        IF out.body.t = "notjson" THEN Raised(jx)
        ELSE IF ~_validate_user_out_schema(out.body) THEN Returned(None)
        ELSE Returned(out.body)
    ELSE IF out.status = 400 THEN Returned(None)
    ELSE IF out.status = 422 THEN Returned(None)
    ELSE Returned(None)

RegisterUserOn(u, pw, out, jx) ==
    /\ pc = "idle"
    /\
        /\ args' = [NoArgs EXCEPT !.username = u, !.password = pw]
        /\ IF MissingText(u) \/ MissingText(pw) THEN
                /\ ret' = Returned(None)
                /\ UNCHANGED <<sent, recv>>
           ELSE /\ sent' = <<Request("POST", "/register", 0,
                                     [username |-> u, password |-> pw], None)>>
                /\ recv' = <<out>>
                /\ ret' = register_user_response(out, jx)
    /\ op' = "register_user"
    /\ pc' = "done"
    /\ UNCHANGED <<poll_data, all_polls, skip>>

CallRegisterUser ==
    /\ \E u \in UsernameArgs, pw \in PasswordArgs :
       \E out \in Outcomes(UserBodies(u)), jx \in JsonErrors :
          RegisterUserOn(u, pw, out, jx)
    /\ UNCHANGED env

register_user_with_error_handling(u, out, jx) ==
    IF out.kind = "fault" THEN
        IF out.exc.cls = "ConnectionError" THEN
            Returned(Result(FALSE, None, "Connection error: Could not connect to the API server",
                            0, "ConnectionError", NoData))
        ELSE IF out.exc.cls = "Timeout" THEN
            Returned(Result(FALSE, None, "Request timeout: The server took too long to respond",
                            0, "Timeout", NoData))
        ELSE Returned(Result(FALSE, None, "Request failed: ", out.exc.msg, "RequestException", NoData))
    ELSE IF out.status = 200 THEN
        IF out.body.t = "notjson" THEN
            IF IsRequestException(jx)
            THEN Returned(Result(FALSE, None, "Request failed: ", jx.msg, "RequestException", NoData))
            ELSE Raised(jx)
        ELSE Returned(Result(TRUE, out.body, "User registered successfully", 0, "", NoData))
    ELSE IF out.status = 400 THEN
        Returned(Result(FALSE, None, "Username is already registered", u, "",
                        [status_code |-> 400]))
    ELSE Returned(Result(FALSE, None, "Unexpected error: ", out.status, "",
                    [status_code |-> out.status]))

RegisterUserWithErrorHandlingOn(u, pw, out, jx) ==
    /\ pc = "idle"
    /\
        /\ args' = [NoArgs EXCEPT !.username = u, !.password = pw]
        /\ sent' = <<Request("POST", "/register", 0, [username |-> u, password |-> pw], None)>>
        /\ recv' = <<out>>
        /\ ret' = register_user_with_error_handling(u, out, jx)
    /\ op' = "register_user_with_error_handling"
    /\ pc' = "done"
    /\ UNCHANGED <<poll_data, all_polls, skip>>

CallRegisterUserWithErrorHandling ==
    /\ \E u \in UsernameArgs, pw \in PasswordArgs :
       \E out \in Outcomes(UserBodies(u)), jx \in JsonErrors :
          RegisterUserWithErrorHandlingOn(u, pw, out, jx)
    /\ UNCHANGED env

login_user_response(out, jx) ==
    IF out.kind = "fault" THEN Raised(out.exc)
    ELSE IF out.status = 200 THEN
        IF out.body.t = "notjson" THEN Raised(jx)
        ELSE IF ~_validate_token_schema(out.body) THEN Returned(None)
        ELSE Returned(out.body)
    ELSE IF out.status = 400 THEN Returned(None)
    ELSE IF out.status = 422 THEN Returned(None)
    ELSE Returned(None)

CallLoginUser ==
    /\ pc = "idle"
    /\ \E u \in UsernameArgs, pw \in PasswordArgs :
       \E out \in Outcomes(TokenBodies), jx \in JsonErrors :
        /\ args' = [NoArgs EXCEPT !.username = u, !.password = pw]
        /\ IF MissingText(u) \/ MissingText(pw) THEN
                /\ ret' = Returned(None)
                /\ UNCHANGED <<sent, recv>>
           ELSE /\ sent' = <<Request("POST", "/login", 0,
                                     [username |-> u, password |-> pw], None)>>
                /\ recv' = <<out>>
                /\ ret' = login_user_response(out, jx)
    /\ op' = "login_user"
    /\ pc' = "done"
    /\ UNCHANGED <<poll_data, all_polls, skip, env>>

create_poll_response(out, jx) ==
    IF out.kind = "fault" THEN Raised(out.exc)
    ELSE IF out.status = 200 THEN
        IF out.body.t = "notjson" THEN Raised(jx)
        ELSE IF ~_validate_poll_out_schema(out.body) THEN Returned(None)
        ELSE Returned(out.body)
    ELSE IF out.status = 401 THEN Returned(None)
    ELSE IF out.status = 422 THEN Returned(None)
    ELSE Returned(None)

\* lines 488-502: the argument checks of create_poll
create_poll_rejects(question, options, access_token) ==
    \/ MissingText(question)
    \/ ~Truthy(options) \/ options.t # "list" \/ Len(options.v) = 0
    \/ \E i \in DOMAIN options.v :
          IF options.v[i].t # "str" THEN TRUE ELSE Strip(options.v[i].v) = ""
    \/ MissingText(access_token)

CallCreatePoll ==
    /\ pc = "idle"
    /\ \E q \in QuestionArgs, opts \in OptionsArgs, tok \in TokenArgs :
       \E out \in Outcomes(PollBodies(1)), jx \in JsonErrors :
        /\ args' = [NoArgs EXCEPT !.question = q, !.options = opts, !.access_token = tok]
        /\ IF create_poll_rejects(q, opts, tok) THEN
                /\ ret' = Returned(None)
                /\ UNCHANGED <<sent, recv>>
           ELSE /\ sent' = <<Request("POST", "/polls", 0,
                                     [question |-> q, options |-> opts], tok)>>
                /\ recv' = <<out>>
                /\ ret' = create_poll_response(out, jx)
    /\ op' = "create_poll"
    /\ pc' = "done"
    /\ UNCHANGED <<poll_data, all_polls, skip, env>>

VoteRequest(p, o, tok) == Request("POST", "/polls/{id}/vote", p, [option_id |-> o], tok)

CallVoteOnPoll ==
    /\ pc = "idle"
    /\ \E p \in PollIdArgs, o \in OptionIdArgs, tok \in TokenArgs :
       \E out \in Outcomes(VoteBodies(o)), jx \in JsonErrors :
        /\ args' = [NoArgs EXCEPT !.poll_id = p, !.option_id = o, !.access_token = tok]
        /\ sent' = <<VoteRequest(p, o, tok)>>
        /\ recv' = <<out>>
        /\ ret' = vote_on_poll(out, jx)
    /\ op' = "vote_on_poll"
    /\ pc' = "done"
    /\ UNCHANGED <<poll_data, all_polls, skip, env>>

delete_poll(out) ==
    IF out.kind = "fault" THEN Raised(out.exc)
    ELSE IF out.status = 204 THEN Returned(PyBool(TRUE))
    ELSE IF out.status = 401 THEN Returned(PyBool(FALSE))
    ELSE IF out.status = 404 THEN Returned(PyBool(FALSE))
    ELSE Returned(PyBool(FALSE))

CallDeletePoll ==
    /\ pc = "idle"
    /\ \E p \in PollIdArgs, tok \in TokenArgs, out \in Outcomes({None}) :
        /\ args' = [NoArgs EXCEPT !.poll_id = p, !.access_token = tok]
        /\ sent' = <<Request("DELETE", "/polls/{id}", p, NoData, tok)>>
        /\ recv' = <<out>>
        /\ ret' = delete_poll(out)
    /\ op' = "delete_poll"
    /\ pc' = "done"
    /\ UNCHANGED <<poll_data, all_polls, skip, env>>

CallGetPollById ==
    /\ pc = "idle"
    /\ \E p \in PollIdArgs : \E out \in Outcomes(PollBodies(p)), jx \in JsonErrors :
        /\ args' = [NoArgs EXCEPT !.poll_id = p]
        /\ sent' = <<Request("GET", "/polls/{id}", p, NoData, None)>>
        /\ recv' = <<out>>
        /\ ret' = get_poll_by_id(out, jx)
    /\ op' = "get_poll_by_id"
    /\ pc' = "done"
    /\ UNCHANGED <<poll_data, all_polls, skip, env>>

CallGetPollResults ==
    /\ pc = "idle"
    /\ \E p \in PollIdArgs : \E out \in Outcomes(ResultsBodies(p)), jx \in JsonErrors :
        /\ args' = [NoArgs EXCEPT !.poll_id = p]
        /\ sent' = <<Request("GET", "/polls/{id}/results", p, NoData, None)>>
        /\ recv' = <<out>>
        /\ ret' = get_poll_results(out, jx)
    /\ op' = "get_poll_results"
    /\ pc' = "done"
    /\ UNCHANGED <<poll_data, all_polls, skip, env>>

CallFetchPolls ==
    /\ pc = "idle"
    /\ \E k \in PageSizeArgs : \E out \in ListOutcomes(0, k), jx \in JsonErrors :
        /\ args' = [NoArgs EXCEPT !.limit = k]
        /\ sent' = <<ListRequest(0, k)>>
        /\ recv' = <<out>>
        /\ ret' = fetch_polls(out, jx)
    /\ op' = "fetch_polls"
    /\ pc' = "done"
    /\ UNCHANGED <<poll_data, all_polls, skip, env>>

CallFetchPollsWithErrorHandling ==
    /\ pc = "idle"
    /\ \E k \in PageSizeArgs : \E out \in ListOutcomes(0, k), jx \in JsonErrors :
        /\ args' = [NoArgs EXCEPT !.limit = k]
        /\ sent' = <<ListRequest(0, k)>>
        /\ recv' = <<out>>
        /\ ret' = fetch_polls_with_error_handling(0, k, out, jx)
    /\ op' = "fetch_polls_with_error_handling"
    /\ pc' = "done"
    /\ UNCHANGED <<poll_data, all_polls, skip, env>>

\* cast_vote: argument checks, then vote_on_poll, whose exceptions pass through
CallCastVote ==
    /\ pc = "idle"
    /\ \E p \in PollIdArgs, o \in OptionIdArgs, tok \in TokenArgs :
       \E out \in Outcomes(VoteBodies(o)), jx \in JsonErrors :
        LET vote_result == vote_on_poll(out, jx)
        IN  /\ args' = [NoArgs EXCEPT !.poll_id = p, !.option_id = o, !.access_token = tok]
            /\ IF ~Truthy(tok) \/ p <= 0 \/ o <= 0 THEN
                    /\ ret' = Returned(None)
                    /\ UNCHANGED <<sent, recv>>
               ELSE /\ sent' = <<VoteRequest(p, o, tok)>>
                    /\ recv' = <<out>>
                    /\ ret' = IF vote_result.kind = "raise" THEN vote_result
                              ELSE IF Truthy(vote_result.val) THEN vote_result
                              ELSE Returned(None)
    /\ op' = "cast_vote"
    /\ pc' = "done"
    /\ UNCHANGED <<poll_data, all_polls, skip, env>>

\* retrieve_poll_results: argument check, then get_poll_results
CallRetrievePollResults ==
    /\ pc = "idle"
    /\ \E p \in PollIdArgs : \E out \in Outcomes(ResultsBodies(p)), jx \in JsonErrors :
        LET results == get_poll_results(out, jx)
        IN  /\ args' = [NoArgs EXCEPT !.poll_id = p]
            /\ IF p <= 0 THEN
                    /\ ret' = Returned(None)
                    /\ UNCHANGED <<sent, recv>>
               ELSE /\ sent' = <<Request("GET", "/polls/{id}/results", p, NoData, None)>>
                    /\ recv' = <<out>>
                    /\ ret' = IF results.kind = "raise" THEN results
                              ELSE IF Truthy(results.val) THEN results
                              ELSE Returned(None)
    /\ op' = "retrieve_poll_results"
    /\ pc' = "done"
    /\ UNCHANGED <<poll_data, all_polls, skip, env>>

----------------------------------------------------------------------------
(* The caller takes the outcome; the invocation's locals are gone *)

\* the server before any client acted: no user, every poll with the options
\* O1 and O2, no vote
InitialServer ==
    [users |-> {}, options |-> {1, 2}, votes |-> [o \in {1, 2} |-> 0]]

\* the locals of an invocation that has not started
IdleFrame ==
    [pc |-> "idle", op |-> "none", args |-> NoArgs, sent |-> <<>>, recv |-> <<>>,
     ret |-> NoRet, poll_data |-> None, all_polls |-> <<>>, skip |-> 0]

Finish ==
    /\ pc = "done"
    /\ pc' = "idle"
    /\ op' = "none"
    /\ args' = NoArgs
    /\ sent' = <<>>
    /\ recv' = <<>>
    /\ ret' = NoRet
    /\ poll_data' = None
    /\ all_polls' = <<>>
    /\ skip' = 0
    /\ changed' = FALSE
    /\ UNCHANGED <<polls, server, other>>

Init ==
    /\ pc = "idle"
    /\ op = "none"
    /\ args = NoArgs
    /\ sent = <<>>
    /\ recv = <<>>
    /\ ret = NoRet
    /\ poll_data = None
    /\ all_polls = <<>>
    /\ skip = 0
    /\ polls \in { [i \in 1..n |-> i] : n \in 0..MaxPolls }
    /\ server = InitialServer
    /\ changed = FALSE
    /\ other = IdleFrame

Next ==
    \/ CallCastVoteWithValidation
    \/ CastVoteGetPoll
    \/ CastVoteVote
    \/ CallRetrievePollResultsWithValidation
    \/ RetrieveResultsGetPoll
    \/ RetrieveResultsGetResults
    \/ CallFetchAllPollsPaginated
    \/ PaginateStep
    \/ CallRegisterUser
    \/ CallRegisterUserWithErrorHandling
    \/ CallLoginUser
    \/ CallCreatePoll
    \/ CallVoteOnPoll
    \/ CallDeletePoll
    \/ CallGetPollById
    \/ CallGetPollResults
    \/ CallFetchPolls
    \/ CallFetchPollsWithErrorHandling
    \/ CallCastVote
    \/ CallRetrievePollResults
    \/ Finish

Spec == Init /\ [][Next]_vars

\* The pagination loop runs in the caller's thread and each of its blocking
\* calls is answered or fails, so a pending loop iteration is eventually taken.
LiveSpec == Init /\ [][Next]_vars /\ WF_vars(PaginateStep)

----------------------------------------------------------------------------
(* The client against a server that answers from its state, while other    *)
(* clients change that state.  The functions are the ones above; only the  *)
(* outcome of each round trip is now the server's.  Vote counts are those  *)
(* of the one poll the caller addresses.                                   *)

PollIds == { polls[i] : i \in DOMAIN polls }

\* GET /polls/{id}
HonestGetPollOutcome(p) ==
    IF p \in PollIds THEN Response(200, ServerPoll(p)) ELSE Response(404, None)

\* POST /polls/{id}/vote
VoteAccepted(p, o, tok) ==
    tok = PyStr("tok") /\ p \in PollIds /\ o \in server.options

HonestVoteOutcome(p, o, tok) ==
    IF tok # PyStr("tok") THEN Response(401, None)
    ELSE IF ~VoteAccepted(p, o, tok) THEN Response(404, None)
    ELSE Response(200, VoteOut(PyInt(10), PyInt(o)))

\* GET /polls/{id}/results
HonestResultsOutcome(p) ==
    IF p \in PollIds
    THEN Response(200, PollResults(PyInt(p), PyList(
            [i \in DOMAIN ServerOptions |->
                ResultEntry(ServerOptions[i].v.text,
                            PyInt(server.votes[ServerOptions[i].v.id.v]))])))
    ELSE Response(404, None)

\* POST /register
HonestRegisterOutcome(u) ==
    IF u.t # "str" \/ u.v = "" THEN Response(422, None)
    ELSE IF u.v \in server.users THEN Response(400, None)
    ELSE Response(200, UserOut(PyInt(1), u))

ServedCastVoteGetPoll ==
    /\ \E jx \in JsonErrors :
          CastVoteGetPollOn(HonestGetPollOutcome(args.poll_id), jx)
    /\ UNCHANGED env

ServedCastVoteVote ==
    /\ pc = "cv_vote"
    /\ server.votes[args.option_id] < MaxVotes
    /\ \E jx \in JsonErrors :
          CastVoteVoteOn(HonestVoteOutcome(args.poll_id, args.option_id, args.access_token), jx)
    /\ server' = IF VoteAccepted(args.poll_id, args.option_id, args.access_token)
                 THEN [server EXCEPT !.votes[args.option_id] = @ + 1]
                 ELSE server
    /\ UNCHANGED <<polls, changed, other>>

ServedRetrieveResultsGetPoll ==
    /\ \E jx \in JsonErrors :
          RetrieveResultsGetPollOn(HonestGetPollOutcome(args.poll_id), jx)
    /\ UNCHANGED env

ServedRetrieveResultsGetResults ==
    /\ \E jx \in JsonErrors :
          RetrieveResultsGetResultsOn(HonestResultsOutcome(args.poll_id), jx)
    /\ UNCHANGED env

\* the server stores the user when it answers 200
ServerAfterRegister(u) ==
    IF HonestRegisterOutcome(u).status = 200
    THEN [server EXCEPT !.users = @ \cup {u.v}]
    ELSE server

ServedRegisterUser ==
    /\ \E u \in UsernameArgs, pw \in PasswordArgs, jx \in JsonErrors :
          /\ RegisterUserOn(u, pw, HonestRegisterOutcome(u), jx)
          /\ server' = IF sent' = <<>> THEN server ELSE ServerAfterRegister(u)
    /\ UNCHANGED <<polls, changed, other>>

ServedRegisterUserWithErrorHandling ==
    /\ \E u \in UsernameArgs, pw \in PasswordArgs, jx \in JsonErrors :
          /\ RegisterUserWithErrorHandlingOn(u, pw, HonestRegisterOutcome(u), jx)
          /\ server' = ServerAfterRegister(u)
    /\ UNCHANGED <<polls, changed, other>>

\* a pagination step answered by the server, or failing
ServedPaginateStep ==
    /\ \E out \in {HonestListOutcome(skip, args.page_size), Response(500, None)},
          jx \in JsonErrors :
          PaginateStepOn(out, jx)
    /\ UNCHANGED env

\* another client acts on the server; `changed` records that it did so
\* between the two round trips of the caller's workflow
BetweenRoundTrips == pc \in {"cv_vote", "rr_results"}

OtherClientDeletesPoll ==
    /\ \E p \in PollIds :
          LET Others(q) == q # p IN polls' = SelectSeq(polls, Others)
    /\ changed' = (changed \/ BetweenRoundTrips)
    /\ UNCHANGED <<pc, op, args, sent, recv, ret, poll_data, all_polls, skip, server, other>>

OtherClientDeletesOption ==
    /\ \E o \in server.options :
          server' = [server EXCEPT !.options = @ \ {o}]
    /\ changed' = (changed \/ BetweenRoundTrips)
    /\ UNCHANGED <<pc, op, args, sent, recv, ret, poll_data, all_polls, skip, polls, other>>

OtherClientVotes ==
    /\ \E o \in server.options :
          /\ server.votes[o] < MaxVotes
          /\ server' = [server EXCEPT !.votes[o] = @ + 1]
    /\ changed' = (changed \/ BetweenRoundTrips)
    /\ UNCHANGED <<pc, op, args, sent, recv, ret, poll_data, all_polls, skip, polls, other>>

ServerNext ==
    \/ CallCastVoteWithValidation
    \/ ServedCastVoteGetPoll
    \/ ServedCastVoteVote
    \/ CallRetrievePollResultsWithValidation
    \/ ServedRetrieveResultsGetPoll
    \/ ServedRetrieveResultsGetResults
    \/ ServedRegisterUser
    \/ ServedRegisterUserWithErrorHandling
    \/ OtherClientDeletesPoll
    \/ OtherClientDeletesOption
    \/ OtherClientVotes
    \/ Finish

ServerSpec == Init /\ [][ServerNext]_vars

\* the three multi-request functions against the server, while other clients vote
ReadersNext ==
    \/ CallRetrievePollResultsWithValidation
    \/ ServedRetrieveResultsGetPoll
    \/ ServedRetrieveResultsGetResults
    \/ CallFetchAllPollsPaginated
    \/ ServedPaginateStep
    \/ CallCastVoteWithValidation
    \/ ServedCastVoteGetPoll
    \/ ServedCastVoteVote
    \/ OtherClientVotes
    \/ Finish

ReadersSpec == Init /\ [][ReadersNext]_vars

----------------------------------------------------------------------------
(* Two callers.  Every variable of an invocation is a local of the called  *)
(* function (all_polls and skip are created at lines 337-338, poll_data at *)
(* line 879), and the module keeps no state of its own, so each caller has *)
(* a frame of its own: `other` holds the frame of the caller that is not   *)
(* running, and Switch hands the processor to it.                          *)

Frame ==
    [pc |-> pc, op |-> op, args |-> args, sent |-> sent, recv |-> recv,
     ret |-> ret, poll_data |-> poll_data, all_polls |-> all_polls, skip |-> skip]

\* faulty variant: the accumulator is one list shared by the callers
Switch_SharedAccumulator ==
    /\ other' = Frame
    /\ pc' = other.pc
    /\ op' = other.op
    /\ args' = other.args
    /\ sent' = other.sent
    /\ recv' = other.recv
    /\ ret' = other.ret
    /\ poll_data' = other.poll_data
    /\ skip' = other.skip
    /\ UNCHANGED <<all_polls, polls, server, changed>>

Switch ==
    /\ other' = Frame
    /\ pc' = other.pc
    /\ op' = other.op
    /\ args' = other.args
    /\ sent' = other.sent
    /\ recv' = other.recv
    /\ ret' = other.ret
    /\ poll_data' = other.poll_data
    /\ all_polls' = other.all_polls
    /\ skip' = other.skip
    /\ UNCHANGED <<polls, server, changed>>

ConcurrentNext ==
    \/ CallFetchAllPollsPaginated
    \/ ServedPaginateStep
    \/ CallCastVoteWithValidation
    \/ ServedCastVoteGetPoll
    \/ ServedCastVoteVote
    \/ Switch
    \/ Finish

ConcurrentSpec == Init /\ [][ConcurrentNext]_vars

----------------------------------------------------------------------------
(* Vocabulary of the properties *)

Workflows == {"cast_vote_with_validation", "retrieve_poll_results_with_validation"}

IsVoteRequest(r) == r.method = "POST" /\ r.path = "/polls/{id}/vote"
IsResultsRequest(r) == r.method = "GET" /\ r.path = "/polls/{id}/results"
VoteSent == \E i \in DOMAIN sent : IsVoteRequest(sent[i])

IsFault(out) == out.kind = "fault"
IsStatus(out, st) == out.kind = "response" /\ out.status = st

\* the invocation returned a failure dictionary with this error_type
FailedAs(error_type) ==
    /\ pc = "done"
    /\ ret.kind = "return"
    /\ ret.val.t = "result"
    /\ ~ret.val.success
    /\ ret.val.data = None
    /\ ret.val.error_type = error_type

\* a 200 response carrying a Poll whose options all are mappings with an id
PollWithOptionIds(out) ==
    /\ IsStatus(out, 200)
    /\ out.body.t = "dict"
    /\ out.body.v.id.t = "int"
    /\ out.body.v.options.t = "list"
    /\ \A i \in DOMAIN out.body.v.options.v :
          /\ out.body.v.options.v[i].t = "dict"
          /\ out.body.v.options.v[i].v.id.t = "int"

OptionIdsOf(out) ==
    { out.body.v.options.v[i].v.id.v : i \in DOMAIN out.body.v.options.v }

----------------------------------------------------------------------------
(* C1: when the poll fetched by cast_vote_with_validation has the option   *)
(* ids O and the requested option id is not in O, the call ends with the   *)
(* failure "Option not found in poll" (error_type ValidationError) that    *)
(* lists exactly the ids of O, and it has sent no vote request.            *)
C1_InvalidOptionNoVote ==
    ( /\ op = "cast_vote_with_validation"
      /\ Len(recv) >= 1
      /\ PollWithOptionIds(recv[1])
      /\ args.option_id \notin OptionIdsOf(recv[1]) )
    => /\ FailedAs("ValidationError")
       /\ ret.val.message.text = "Option not found in poll. Valid options: "
       /\ { ret.val.message.detail[i].v : i \in DOMAIN ret.val.message.detail }
             = OptionIdsOf(recv[1])
       /\ Len(ret.val.message.detail) = Len(recv[1].body.v.options.v)
       /\ ~VoteSent
       /\ Len(sent) = 1

C1_Witness ==
    /\ pc = "done"
    /\ op = "cast_vote_with_validation"
    /\ Len(recv) = 1
    /\ PollWithOptionIds(recv[1])
    /\ OptionIdsOf(recv[1]) = {1, 2}
    /\ args.option_id = 3
    /\ FailedAs("ValidationError")

----------------------------------------------------------------------------
(* C2: when the get-poll request of a validated workflow is answered 404,  *)
(* the workflow returns the NotFoundError failure and that request is the  *)
(* only one it sent.                                                       *)
C2_NotFoundStops ==
    ( /\ op \in Workflows
      /\ Len(recv) >= 1
      /\ IsStatus(recv[1], 404) )
    => /\ FailedAs("NotFoundError")
       /\ Len(sent) = 1
       /\ ~IsVoteRequest(sent[1])
       /\ ~IsResultsRequest(sent[1])

C2_Witness ==
    /\ pc = "done"
    /\ op = "retrieve_poll_results_with_validation"
    /\ Len(recv) = 1
    /\ IsStatus(recv[1], 404)
    /\ FailedAs("NotFoundError")

----------------------------------------------------------------------------
(* Pagination against a server that answers every list-polls call with     *)
(* the requested slice of its collection                                   *)

AnsweredFromCollection ==
    \A i \in DOMAIN recv :
        recv[i] = HonestListOutcome(sent[i].data.skip, sent[i].data.limit)

AllServerPolls == [i \in 1..Len(polls) |-> ServerPoll(polls[i])]

PaginationDone == op = "fetch_all_polls_paginated" /\ pc = "done"

(* C3: against such a server the iterator returns the server's polls, each *)
(* once and in the server's order, whatever the collection size and the    *)
(* page size (and the run is never cut short).                             *)
C3_PaginationComplete ==
    ( /\ op = "fetch_all_polls_paginated"
      /\ AnsweredFromCollection )
    => /\ pc = "done" => ret = Returned(PyList(AllServerPolls))
       /\ pc = "pg_loop" => Len(sent) < MaxCalls

C3_Witness ==
    /\ PaginationDone
    /\ AnsweredFromCollection
    /\ Len(polls) = 4
    /\ args.page_size = 2
    /\ ret = Returned(PyList(AllServerPolls))

----------------------------------------------------------------------------
(* C4 as stated: against such a server the iterator issues exactly         *)
(* ceil(n/k) list-polls calls.                                             *)
CeilDiv(n, k) == (n + k - 1) \div k

C4_Original_CeilCalls ==
    (PaginationDone /\ AnsweredFromCollection)
    => Len(sent) = CeilDiv(Len(polls), args.page_size)

(* C4 amended: the iterator issues exactly floor(n/k) + 1 calls: a full    *)
(* last page does not tell it that the data ended, so when k divides n     *)
(* (n = 0 included) it makes one call more than ceil(n/k).                 *)
C4_FloorPlusOneCalls ==
    (PaginationDone /\ AnsweredFromCollection)
    => /\ Len(sent) = (Len(polls) \div args.page_size) + 1
       /\ \A i \in DOMAIN sent : sent[i].path = "/polls" /\ sent[i].method = "GET"

C4_Witness ==
    /\ PaginationDone
    /\ AnsweredFromCollection
    /\ Len(polls) = 4
    /\ args.page_size = 2
    /\ Len(sent) = 3

----------------------------------------------------------------------------
(* C5: when a list-polls call of a pagination run fails (a non-200 status  *)
(* or a transport fault) after full pages, it is the run's last call and   *)
(* the run returns, without raising, the concatenation of those pages.     *)
IsListFailure(out) == IsFault(out) \/ (out.kind = "response" /\ out.status # 200)

FullPage(out, k) ==
    IsStatus(out, 200) /\ out.body.t = "list" /\ Len(out.body.v) = k

RECURSIVE ConcatPages(_, _)
ConcatPages(outs, j) ==
    IF j = 0 THEN <<>> ELSE ConcatPages(outs, j - 1) \o outs[j].body.v

C5_PartialResultOnFailure ==
    op = "fetch_all_polls_paginated" =>
        \A j \in DOMAIN recv :
            ( /\ IsListFailure(recv[j])
              /\ \A i \in 1..(j - 1) : FullPage(recv[i], args.page_size) )
            => /\ j = Len(recv)
               /\ Len(sent) = j
               /\ pc = "done"
               /\ ret = Returned(PyList(ConcatPages(recv, j - 1)))

C5_Witness ==
    /\ PaginationDone
    /\ Len(recv) = 3
    /\ IsFault(recv[3])
    /\ args.page_size = 2
    /\ ret.kind = "return"
    /\ Len(ret.val.v) = 4

----------------------------------------------------------------------------
(* C6 as stated: a resource operation called with an empty or absent       *)
(* required text argument, a non-positive poll or option id, or an empty   *)
(* options list returns a failure and sends no HTTP request.               *)
ResourceOperations ==
    {"register_user", "register_user_with_error_handling", "login_user", "create_poll",
     "vote_on_poll", "delete_poll", "get_poll_by_id", "get_poll_results"}

EmptyText(x) == x.t = "none" \/ (x.t = "str" /\ x.v = "")

InvalidArguments ==
    CASE op \in {"register_user", "register_user_with_error_handling", "login_user"} ->
            EmptyText(args.username) \/ EmptyText(args.password)
      [] op = "create_poll" ->
            \/ EmptyText(args.question) \/ EmptyText(args.access_token)
            \/ args.options.t = "none"
            \/ (args.options.t = "list" /\ args.options.v = <<>>)
      [] op = "vote_on_poll" ->
            args.poll_id <= 0 \/ args.option_id <= 0 \/ EmptyText(args.access_token)
      [] op = "delete_poll" -> args.poll_id <= 0 \/ EmptyText(args.access_token)
      [] op \in {"get_poll_by_id", "get_poll_results"} -> args.poll_id <= 0
      [] OTHER -> FALSE

C6_Original_ValidationBeforeNetwork ==
    (pc = "done" /\ op \in ResourceOperations /\ InvalidArguments)
    => /\ sent = <<>>
       /\ ret.kind = "return"
       /\ ret.val.t \in {"none", "result", "bool"}
       /\ ret.val.t = "result" => ~ret.val.success
       /\ ret.val.t = "bool" => ~ret.val.v

----------------------------------------------------------------------------
(* C7 as stated: no public operation lets a transport fault leave the call *)
(* as an exception.                                                        *)
LastOutcome == recv[Len(recv)]
EndedByFault == pc = "done" /\ recv # <<>> /\ IsFault(LastOutcome)

FaultConverting ==
    Workflows \cup {"fetch_all_polls_paginated", "register_user_with_error_handling",
                    "fetch_polls_with_error_handling"}

----------------------------------------------------------------------------
(* C8: a validated workflow never ends with an exception.  A transport     *)
(* fault of a nested call ends it with a NetworkError result, any other    *)
(* exception raised inside it with an UnexpectedError result, and the      *)
(* result's message carries the exception's message.                       *)

\* a validated Poll with an option entry that has no id or is not a mapping
PollWithBadOption(out) ==
    /\ IsStatus(out, 200)
    /\ out.body.t = "dict"
    /\ out.body.v.id.t = "int"
    /\ out.body.v.options.t = "list"
    /\ \E i \in DOMAIN out.body.v.options.v :
          IF out.body.v.options.v[i].t # "dict" THEN TRUE
          ELSE out.body.v.options.v[i].v.id.t = "absent"

\* a validated PollResults with an entry whose count cannot be summed
ResultsWithBadEntry(out) ==
    /\ IsStatus(out, 200)
    /\ out.body.t = "dict"
    /\ out.body.v.poll_id.t = "int"
    /\ \E i \in DOMAIN out.body.v.results.v :
          IF out.body.v.results.v[i].t # "dict" THEN TRUE
          ELSE out.body.v.results.v[i].v.vote_count.t = "str"

\* the option voted for is in the fetched poll without a "text"
VotedOptionWithoutText ==
    \E i \in DOMAIN recv[1].body.v.options.v :
        /\ recv[1].body.v.options.v[i].v.id.v = args.option_id
        /\ recv[1].body.v.options.v[i].v.text.t = "absent"

Undecodable(out) == IsStatus(out, 200) /\ out.body.t = "notjson"

C8_WorkflowsNeverRaise ==
    op \in Workflows =>
        /\ ret.kind # "raise"
        /\ pc = "done" => ret.kind = "return" /\ ret.val.t = "result"
        /\ (recv # <<>> /\ IsFault(LastOutcome)) =>
              /\ FailedAs("NetworkError")
              /\ ret.val.message.detail = LastOutcome.exc.msg
        /\ (recv # <<>> /\ Undecodable(LastOutcome)) =>
              /\ FailedAs("NetworkError") \/ FailedAs("UnexpectedError")
              /\ ret.val.message.detail = "expecting value"
        /\ (op = "cast_vote_with_validation" /\ Len(recv) = 1 /\ PollWithBadOption(recv[1])) =>
              /\ FailedAs("UnexpectedError")
              /\ ret.val.message.detail \in {"'id'", "string indices must be integers"}
        /\ ( /\ op = "cast_vote_with_validation"
             /\ Len(recv) = 2
             /\ IsStatus(recv[2], 200)
             /\ _validate_vote_out_schema(recv[2].body)
             /\ VotedOptionWithoutText ) =>
              /\ FailedAs("UnexpectedError")
              /\ ret.val.message.detail = "'text'"
        /\ ( /\ op = "retrieve_poll_results_with_validation"
             /\ Len(recv) = 2
             /\ ResultsWithBadEntry(recv[2]) ) =>
              /\ FailedAs("UnexpectedError")
              /\ ret.val.message.detail \in {"object has no attribute 'get'",
                                             "unsupported operand type(s) for +"}

C8_Witness ==
    /\ op = "cast_vote_with_validation"
    /\ Len(recv) = 2
    /\ IsFault(recv[2])
    /\ recv[2].exc.cls = "ConnectionError"
    /\ FailedAs("NetworkError")

----------------------------------------------------------------------------
(* C9 as stated: when the vote request of cast_vote_with_validation is     *)
(* rejected, the result carries the vote operation's failure kind:         *)
(* Unauthorized for 401, NotFound for 404, MalformedInput for 422, the     *)
(* generic unexpected-response kind otherwise; no Vote is returned.        *)
VoteFailureKind(status) ==
    CASE status = 401 -> {"Unauthorized", "UnauthorizedError"}
      [] status = 404 -> {"NotFound", "NotFoundError"}
      [] status = 422 -> {"MalformedInput", "MalformedInputError"}
      [] OTHER -> {"UnexpectedServerResponse", "UnexpectedError"}

C9_Original_VoteFailureKindKept ==
    ( /\ op = "cast_vote_with_validation"
      /\ pc = "done"
      /\ Len(recv) = 2
      /\ recv[2].kind = "response"
      /\ recv[2].status # 200 )
    => /\ ret.kind = "return"
       /\ ~ret.val.success
       /\ ret.val.data = None
       /\ ret.val.error_type \in VoteFailureKind(recv[2].status)

----------------------------------------------------------------------------
(* C10 as stated: get poll, and a workflow built on it, report NotFound    *)
(* only when the get-poll request was answered 404; another non-200        *)
(* status, or a 200 whose body fails the Poll validator, is reported as a  *)
(* different kind, never as NotFound and never as a bare None.             *)
C10_Original_NotFoundOnlyOn404 ==
    /\ (op \in Workflows /\ FailedAs("NotFoundError")) => IsStatus(recv[1], 404)
    /\ (op = "get_poll_by_id" /\ pc = "done" /\ ret = Returned(None)) => IsStatus(recv[1], 404)

----------------------------------------------------------------------------
(* C11 as stated: a resource operation returns a success result exactly    *)
(* when the response has the operation's success status and its body       *)
(* passes the matching validator, in every variant of register and list    *)
(* polls; the pagination iterator therefore never accumulates an entry     *)
(* that is not a valid Poll.                                               *)
SingleRequestOperations ==
    ResourceOperations \cup {"fetch_polls", "fetch_polls_with_error_handling"}

SuccessReturned ==
    /\ ret.kind = "return"
    /\ CASE ret.val.t = "result" -> ret.val.success
         [] ret.val.t = "bool" -> ret.val.v
         [] ret.val.t = "none" -> FALSE
         [] OTHER -> TRUE

IsUser(b) == b.t = "dict" /\ b.v.id.t = "int" /\ b.v.username.t = "str"
IsToken(b) == b.t = "dict" /\ b.v.access_token.t = "str" /\ b.v.token_type.t = "str"
IsPoll(b) ==
    /\ b.t = "dict"
    /\ b.v.id.t = "int"
    /\ b.v.question.t = "str"
    /\ b.v.created_at.t = "str"
    /\ b.v.owner_id.t = "int"
    /\ b.v.options.t = "list"
IsVote(b) ==
    /\ b.t = "dict"
    /\ b.v.id.t = "int"
    /\ b.v.user_id.t = "int"
    /\ b.v.option_id.t = "int"
    /\ b.v.created_at.t = "str"
IsPollResults(b) ==
    b.t = "dict" /\ b.v.poll_id.t = "int" /\ b.v.question.t = "str" /\ b.v.results.t = "list"
IsPollList(b) == b.t = "list" /\ \A i \in DOMAIN b.v : IsPoll(b.v[i])

SuccessExpected(out) ==
    /\ out.kind = "response"
    /\ IF op = "delete_poll" THEN out.status = 204
       ELSE /\ out.status = 200
            /\ CASE op \in {"register_user", "register_user_with_error_handling"} -> IsUser(out.body)
                 [] op = "login_user" -> IsToken(out.body)
                 [] op \in {"create_poll", "get_poll_by_id"} -> IsPoll(out.body)
                 [] op = "vote_on_poll" -> IsVote(out.body)
                 [] op = "get_poll_results" -> IsPollResults(out.body)
                 [] op \in {"fetch_polls", "fetch_polls_with_error_handling"} -> IsPollList(out.body)
                 [] OTHER -> FALSE

C11_Original_SuccessIffValidated ==
    /\ (pc = "done" /\ op \in SingleRequestOperations /\ Len(recv) = 1)
          => (SuccessReturned <=> SuccessExpected(recv[1]))
    /\ op = "fetch_all_polls_paginated" => \A i \in DOMAIN all_polls : IsPoll(all_polls[i])

----------------------------------------------------------------------------
(* C12: when retrieve_poll_results_with_validation succeeds, its data is   *)
(* the body the results request delivered, summary.total_votes is the sum  *)
(* of the vote counts of that body's entries and summary.option_count is   *)
(* the number of entries.                                                  *)
RECURSIVE VoteSum(_, _)
VoteSum(entries, j) ==
    IF j = 0 THEN 0
    ELSE VoteSum(entries, j - 1)
         + (IF entries[j].v.vote_count.t = "int" THEN entries[j].v.vote_count.v ELSE 0)

ResultsSucceeded ==
    /\ op = "retrieve_poll_results_with_validation"
    /\ pc = "done"
    /\ ret.val.t = "result"
    /\ ret.val.success

C12_SummaryAggregation ==
    ResultsSucceeded =>
        /\ Len(recv) = 2
        /\ IsStatus(recv[2], 200)
        /\ ret.val.data = recv[2].body
        /\ ret.val.extra.total_votes
              = VoteSum(recv[2].body.v.results.v, Len(recv[2].body.v.results.v))
        /\ ret.val.extra.option_count = Len(recv[2].body.v.results.v)

C12_Witness ==
    /\ ResultsSucceeded
    /\ recv[2].body.v.results.v
          = <<ResultEntry(PyStr("A"), PyInt(3)), ResultEntry(PyStr("B"), PyInt(1))>>
    /\ ret.val.extra.total_votes = 4
    /\ ret.val.extra.option_count = 2

----------------------------------------------------------------------------
(* C17: cast_vote_with_validation called with poll_id <= 0, option_id <= 0 *)
(* or an empty access token, and retrieve_poll_results_with_validation     *)
(* called with poll_id <= 0, return the ValidationError failure and send   *)
(* no HTTP request.                                                        *)
WorkflowArgumentsInvalid ==
    \/ /\ op = "cast_vote_with_validation"
       /\ args.poll_id <= 0 \/ args.option_id <= 0 \/ EmptyText(args.access_token)
    \/ /\ op = "retrieve_poll_results_with_validation"
       /\ args.poll_id <= 0

C17_WorkflowFailsFast ==
    WorkflowArgumentsInvalid =>
        /\ FailedAs("ValidationError")
        /\ sent = <<>>
        /\ recv = <<>>

C17_Witness ==
    /\ op = "retrieve_poll_results_with_validation"
    /\ args.poll_id = 0
    /\ FailedAs("ValidationError")
    /\ sent = <<>>

----------------------------------------------------------------------------
(* C18: the i-th list-polls call of a pagination run asks for offset       *)
(* (i-1)*k with limit k, k being the page size; after a page was received  *)
(* the run stops exactly when the page is empty or shorter than k, and     *)
(* otherwise goes on with the offset advanced by k.                        *)
SuccessfulPage(out) == IsStatus(out, 200) /\ out.body.t = "list"

C18_OffsetsAndStop ==
    op = "fetch_all_polls_paginated" =>
        /\ \A i \in DOMAIN sent :
              /\ sent[i].method = "GET"
              /\ sent[i].path = "/polls"
              /\ sent[i].data = [skip |-> (i - 1) * args.page_size, limit |-> args.page_size]
        /\ \A i \in DOMAIN recv :
              SuccessfulPage(recv[i]) =>
                  ( (i = Len(recv) /\ pc = "done")
                    <=> Len(recv[i].body.v) < args.page_size )
        /\ pc = "pg_loop" => skip = Len(sent) * args.page_size

C18_Witness ==
    /\ op = "fetch_all_polls_paginated"
    /\ pc = "done"
    /\ args.page_size = 2
    /\ Len(sent) = 3
    /\ sent[3].data.skip = 4
    /\ SuccessfulPage(recv[3])

----------------------------------------------------------------------------
(* C20: a validated workflow sends at most two requests, one after the     *)
(* other: first the get-poll request, and the vote (or results) request    *)
(* only after the get-poll request was answered 200 with a valid Poll      *)
(* (containing the option, for the vote); at most one vote request is      *)
(* sent in an invocation.                                                  *)
GetPollRequest(p) == Request("GET", "/polls/{id}", p, NoData, None)
ResultsRequest(p) == Request("GET", "/polls/{id}/results", p, NoData, None)

C20_TwoSequentialRequests ==
    op \in Workflows =>
        /\ Len(sent) <= 2
        /\ Len(recv) = Len(sent)
        /\ Len(sent) >= 1 => sent[1] = GetPollRequest(args.poll_id)
        /\ Len(sent) = 2 =>
              /\ IsStatus(recv[1], 200)
              /\ IsPoll(recv[1].body)
              /\ IF op = "cast_vote_with_validation"
                 THEN /\ sent[2] = VoteRequest(args.poll_id, args.option_id, args.access_token)
                      /\ PollWithOptionIds(recv[1])
                      /\ args.option_id \in OptionIdsOf(recv[1])
                 ELSE sent[2] = ResultsRequest(args.poll_id)
        /\ Cardinality({ i \in DOMAIN sent : IsVoteRequest(sent[i]) }) <= 1
        /\ pc = "done" => ret.kind = "return"

C20_Witness ==
    /\ op = "cast_vote_with_validation"
    /\ pc = "done"
    /\ Len(sent) = 2
    /\ IsVoteRequest(sent[2])
    /\ IsStatus(recv[2], 500)

----------------------------------------------------------------------------
(* C19: a pagination run ends once a list-polls call fails or delivers an  *)
(* empty or short page -- in particular against a server answering from a  *)
(* finite collection -- and it has not ended as long as every answer was a *)
(* page of exactly page_size items.                                        *)
Paginating == op = "fetch_all_polls_paginated" /\ pc = "pg_loop"

OnlyFullPages ==
    \A i \in DOMAIN recv : FullPage(recv[i], args.page_size)

C19_TerminatesUnlessAlwaysFull ==
    /\ [](op = "fetch_all_polls_paginated" =>
             /\ OnlyFullPages => pc = "pg_loop"
             /\ ~OnlyFullPages => pc = "done")
    /\ Paginating ~>
          \/ pc = "done"
          \/ /\ Paginating
             /\ Len(sent) = MaxCalls
             /\ OnlyFullPages
             /\ ~AnsweredFromCollection

C19_Witness ==
    /\ Paginating
    /\ args.page_size = 2
    /\ Len(recv) = MaxCalls
    /\ OnlyFullPages

----------------------------------------------------------------------------
(* C13: retrieve_poll_results_with_validation, against the server: its     *)
(* get-poll round trip ends the run with NotFoundError exactly when the    *)
(* poll id is absent on the server; and for a poll that exists and whose   *)
(* options all have 0 votes, the results round trip ends it with success,  *)
(* total_votes 0 and the poll's number of options as option_count.         *)
NoVotes == \A o \in server.options : server.votes[o] = 0

C13_Step ==
    op = "retrieve_poll_results_with_validation" =>
        /\ (pc = "rr_get_poll" /\ pc' # "rr_get_poll")
              => ( args.poll_id \notin PollIds <=> FailedAs("NotFoundError")' )
        /\ (pc = "rr_results" /\ pc' = "done" /\ args.poll_id \in PollIds /\ NoVotes)
              => /\ ret'.kind = "return"
                 /\ ret'.val.success
                 /\ ret'.val.extra.total_votes = 0
                 /\ ret'.val.extra.option_count = Cardinality(server.options)

C13_MissingVersusNoVotes == [][C13_Step]_vars

C13_Witness ==
    /\ ResultsSucceeded
    /\ ~changed
    /\ args.poll_id \in PollIds
    /\ server.options = {1, 2}
    /\ NoVotes
    /\ ret.val.extra.total_votes = 0
    /\ ret.val.extra.option_count = 2

----------------------------------------------------------------------------
(* C14: when another client changed the server between the two round      *)
(* trips of a validated workflow (deleted the poll or an option, or added  *)
(* votes), the workflow still returns a result dictionary, and a failure   *)
(* one when the second request is rejected; it raises nothing.             *)
C14_ToleratesChange ==
    (op \in Workflows /\ changed /\ pc = "done") =>
        /\ Len(recv) = 2
        /\ ret.kind = "return"
        /\ ret.val.t = "result"
        /\ ~IsStatus(recv[2], 200) => ~ret.val.success /\ ret.val.data = None

C14_Witness ==
    /\ op = "cast_vote_with_validation"
    /\ changed
    /\ FailedAs("VoteError")
    /\ Len(recv) = 2
    /\ IsStatus(recv[1], 200)
    /\ IsStatus(recv[2], 404)

----------------------------------------------------------------------------
(* C16 as stated: a register call with a valid username and password       *)
(* returns the User when the server did not know the username, and when    *)
(* the server knows it (as after that first call) returns a failure that   *)
(* differs from what the same function returns for a malformed-input (422) *)
(* or any other unexpected (500) response.                                 *)
RegisterOperations == {"register_user", "register_user_with_error_handling"}

RegisterReturn(f, u, out, jx) ==
    IF f = "register_user" THEN register_user_response(out, jx)
    ELSE register_user_with_error_handling(u, out, jx)

C16_Step ==
    ( /\ pc = "idle"
      /\ op' \in RegisterOperations
      /\ ~EmptyText(args'.username)
      /\ ~EmptyText(args'.password) )
    => IF args'.username.v \notin server.users
       THEN /\ ret'.kind = "return"
            /\ (IF ret'.val.t = "result" THEN ret'.val.data ELSE ret'.val)
                  = UserOut(PyInt(1), args'.username)
       ELSE /\ ret'.kind = "return"
            /\ \A st \in {422, 500}, jx \in JsonErrors :
                  ret' # RegisterReturn(op', args'.username, Response(st, None), jx)

C16_Original_SuccessThenAlreadyRegistered == [][C16_Step]_vars

----------------------------------------------------------------------------
(* C15: with two callers interleaved in any way, what each invocation      *)
(* holds and returns is determined by its own arguments and the responses  *)
(* it received itself: a pagination run accumulates and returns exactly    *)
(* the pages it received, a vote request carries the caller's own poll id, *)
(* option id and token, two invocations with the same arguments and the    *)
(* same responses end the same way, and no step changes the arguments      *)
(* (the access token among them) of either invocation.                     *)
OwnPages(f) ==
    LET pages == SelectSeq(f.recv, SuccessfulPage)
    IN  ConcatPages(pages, Len(pages))

OwnResult(f) ==
    /\ f.op = "fetch_all_polls_paginated" =>
          /\ f.pc = "pg_loop" =>
                /\ f.all_polls = OwnPages(f)
                /\ f.skip = Len(f.sent) * f.args.page_size
          /\ f.pc = "done" => f.ret = Returned(PyList(OwnPages(f)))
    /\ f.op = "cast_vote_with_validation" =>
          \A i \in DOMAIN f.sent :
              IsVoteRequest(f.sent[i]) =>
                  f.sent[i] = VoteRequest(f.args.poll_id, f.args.option_id, f.args.access_token)

SameInputsSameResult ==
    ( /\ pc = "done"
      /\ other.pc = "done"
      /\ op = other.op
      /\ args = other.args
      /\ recv = other.recv )
    => ret = other.ret

ArgumentsKept ==
    \/ pc = "idle"
    \/ pc = "done" /\ pc' = "idle"
    \/ args' = args /\ other'.args = other.args
    \/ args' = other.args /\ other'.args = args

C15_InvocationsIndependent ==
    /\ [](OwnResult(Frame) /\ OwnResult(other) /\ SameInputsSameResult)
    /\ [][ArgumentsKept]_vars

C15_Witness ==
    /\ op = "fetch_all_polls_paginated"
    /\ pc = "done"
    /\ other.op = "fetch_all_polls_paginated"
    /\ other.pc = "pg_loop"
    /\ args.page_size = 2
    /\ other.args.page_size = 1
    /\ Len(recv) = 3
    /\ Len(other.recv) = 2
    /\ ret = Returned(PyList(AllServerPolls))
    /\ Len(polls) = 4

----------------------------------------------------------------------------
(* C21: a fetched poll whose options hold an entry without an id, or an    *)
(* entry that is not a mapping, passes _validate_poll_out_schema; on such  *)
(* a poll cast_vote_with_validation ends at the option check with the      *)
(* UnexpectedError failure, whatever option was asked for: it raises       *)
(* nothing and sends no vote request.                                      *)
MalformedOptionFetched ==
    /\ op = "cast_vote_with_validation"
    /\ Len(recv) >= 1
    /\ IsStatus(recv[1], 200)
    /\ IsPoll(recv[1].body)
    /\ \E i \in DOMAIN recv[1].body.v.options.v :
          IF recv[1].body.v.options.v[i].t # "dict" THEN TRUE
          ELSE recv[1].body.v.options.v[i].v.id.t = "absent"

C21_MalformedOptionsNoVote ==
    MalformedOptionFetched =>
        /\ _validate_poll_out_schema(recv[1].body)
        /\ FailedAs("UnexpectedError")
        /\ ret.val.message.text = "Unexpected error while casting vote: "
        /\ Len(sent) = 1
        /\ ~VoteSent

C21_Witness ==
    /\ MalformedOptionFetched
    /\ recv[1].body.v.options.v = <<O1, Option(Absent, PyStr("B"))>>
    /\ args.option_id = 1
    /\ FailedAs("UnexpectedError")
    /\ ret.val.message.detail = "'id'"
    /\ ~VoteSent

----------------------------------------------------------------------------
(* C22: every request retrieve_poll_results_with_validation and            *)
(* fetch_all_polls_paginated send is a GET (get poll, get results, list    *)
(* polls) and leaves the server's polls, options and vote counts as they   *)
(* were; cast_vote_with_validation sends, besides its get-poll GET, at     *)
(* most one vote request, which changes nothing but the count of the       *)
(* option voted for, and it sends none when it fails before the vote step. *)
ReadOnlyOperations ==
    {"retrieve_poll_results_with_validation", "fetch_all_polls_paginated"}

IsRead(r) ==
    /\ r.method = "GET"
    /\ r.path \in {"/polls", "/polls/{id}", "/polls/{id}/results"}

ServerUntouched == polls' = polls /\ server' = server

C22_Step ==
    (op \in ReadOnlyOperations \cup {"cast_vote_with_validation"} /\ Len(sent') = Len(sent) + 1)
    => LET r == sent'[Len(sent')]
       IN  IF op \in ReadOnlyOperations \/ pc # "cv_vote"
           THEN IsRead(r) /\ ServerUntouched
           ELSE /\ IsVoteRequest(r)
                /\ Len(sent) = 1
                /\ pc' = "done"
                /\ polls' = polls
                /\ server'.users = server.users
                /\ server'.options = server.options
                /\ \A o \in DOMAIN server.votes :
                      o # args.option_id => server'.votes[o] = server.votes[o]

NoVoteOnEarlyFailure ==
    /\ op \in ReadOnlyOperations => \A i \in DOMAIN sent : IsRead(sent[i])
    /\ op = "cast_vote_with_validation" =>
          /\ Cardinality({ i \in DOMAIN sent : ~IsRead(sent[i]) }) <= 1
          /\ (pc = "done" /\ Len(recv) <= 1) => \A i \in DOMAIN sent : IsRead(sent[i])

C22_ReadOnlyFrame == [][C22_Step]_vars /\ []NoVoteOnEarlyFailure

C22_Witness ==
    /\ ResultsSucceeded
    /\ Len(sent) = 2
    /\ IsRead(sent[1])
    /\ IsRead(sent[2])
    /\ server.votes[1] = 1
    /\ ret.val.extra.total_votes = 1

====
